---- MODULE Spec2Model ----
(***************************************************************************)
(* Model of the spreads command line front end (src/spreads/cli.py):       *)
(* the flag synthesizer of setup_parser, the configuration merge of main,  *)
(* the command dispatch and the keypress driven capture loop.              *)
(*                                                                         *)
(* Strings that the code builds or takes apart ("--no-" + key,             *)
(* extname + "." + key, argkey.split('.')) are sequences of tokens, so     *)
(* that formatting and splitting are computed and not assumed.  Names of   *)
(* owners and keys are identifiers: they hold no "." token.                *)
(***************************************************************************)
EXTENDS Integers, Sequences, FiniteSets, TLC

(***************************************************************************)
(* Bounds of the model.                                                    *)
(***************************************************************************)
MaxSupplied == 1
MaxCaptures == 5
MaxElapsed == 5
MaxDevices == 3

(***************************************************************************)
(* Constants of the program.                                               *)
(***************************************************************************)
RequiredDevices == 2
SecondsPerHour == 3600

(***************************************************************************)
(* Python values.  Every value is a record of the same shape so that any   *)
(* two values can be compared: t is the run time type, v the printed       *)
(* scalar, items the elements of a list.                                   *)
(***************************************************************************)
PyStr(s) == [t |-> "str", v |-> s, items |-> <<>>]
PyBool(b) == [t |-> "bool", v |-> IF b THEN "True" ELSE "False", items |-> <<>>]
PyInt(s) == [t |-> "int", v |-> s, items |-> <<>>]
PyFloat(s) == [t |-> "float", v |-> s, items |-> <<>>]
PyList(xs) == [t |-> "list", v |-> "", items |-> xs]
PyNone == [t |-> "NoneType", v |-> "None", items |-> <<>>]

\* isinstance(value, basestring)
IsBasestring(value) == value.t = "str"
\* isinstance(value, bool)
IsBool(value) == value.t = "bool"
\* isinstance(value, float)
IsFloat(value) == value.t = "float"
\* isinstance(value, int): bool is a subclass of int
IsInt(value) == value.t \in {"int", "bool"}
\* truth value of a Python object
Truthy(value) ==
    CASE value.t = "NoneType" -> FALSE
      [] value.t = "bool" -> value.v = "True"
      [] value.t = "str" -> value.v # ""
      [] value.t = "list" -> Len(value.items) > 0
      [] OTHER -> value.v \notin {"0", "0.0"}

Range(s) == {s[i] : i \in 1..Len(s)}

(***************************************************************************)
(* Option declarations of drivers and extensions (spreads.plugin).         *)
(***************************************************************************)
Option(value, selectable) == [value |-> value, selectable |-> selectable]

Entry(key, option) == [key |-> key, option |-> option]

OptTrue == Option(PyBool(TRUE), FALSE)
OptFalse == Option(PyBool(FALSE), FALSE)
OptStr == Option(PyStr("portrait"), FALSE)
OptInt == Option(PyInt("1"), FALSE)
OptFloat == Option(PyFloat("1.5"), FALSE)
OptSelStr == Option(PyList(<<PyStr("portrait"), PyStr("landscape")>>), TRUE)
OptSelInt == Option(PyList(<<PyInt("1"), PyInt("2")>>), TRUE)
OptNone == Option(PyNone, FALSE)

KeyX == <<"x">>
KeyY == <<"y">>
KeyOrientation == <<"orientation">>
KeyW == <<"w">>
DEVICE == <<"device">>
ExtA == <<"exta">>
ExtB == <<"extb">>

CaptureHooks == {"prepare_capture", "capture", "finish_capture"}
ProcessHooks == {"process"}
OutputHooks == {"output"}

(***************************************************************************)
(* Text formatting used by the flag synthesizer.                           *)
(***************************************************************************)
\* "--{0}".format(key)
FlagName(key) == <<"--">> \o key
\* "--no-{0}".format(key)
NoFlagName(key) == <<"--", "no-">> \o key
\* a dest that is the bare key
DestName_unqualified(extname, key) == key

\* "{0}.{1}".format(extname, key)
DestName(extname, key) == extname \o <<".">> \o key

\* "/".join(values) raises TypeError unless every item is a string
CanJoin(values) == \A i \in 1..Len(values) : values[i].t = "str"

RECURSIVE Join(_)
Join(values) ==
    IF Len(values) = 0 THEN <<>>
    ELSE IF Len(values) = 1 THEN <<values[1].v>>
    ELSE <<values[1].v, "/">> \o Join(Tail(values))

\* "<{0}>".format(text)
Metavar(tokens) == <<"<">> \o tokens \o <<">">>

(***************************************************************************)
(* argparse: a parser is the list of its registered flags, together with   *)
(* the trace of the calls of _add_argument_from_option made for it.        *)
(***************************************************************************)
FlagSpec(flag, dest, type, metavar, choices, action, default, argdefault) ==
    [flag |-> flag, dest |-> dest, type |-> type, metavar |-> metavar,
     choices |-> choices, action |-> action, default |-> default,
     argdefault |-> argdefault]

EmptyParser == [flags |-> <<>>, attempts |-> <<>>]

\* ArgumentParser.add_argument: an option string that is already taken
\* raises ArgumentError (conflict_handler 'error')
Conflicts(parser, flag) ==
    \E i \in 1..Len(parser.flags) : parser.flags[i].flag = flag

add_argument(parser, spec) ==
    [parser EXCEPT !.flags = Append(@, spec)]

\* type(value): the constructor argparse converts the argument with
TypeOf(value) == IF value.t = "str" THEN "unicode" ELSE value.t

\* option.value[0]: IndexError / TypeError unless a non-empty sequence
CanIndex0(value) == value.t = "list" /\ Len(value.items) > 0

(***************************************************************************)
(* setup_parser._add_argument_from_option, up to the add_argument call:    *)
(* the flag name and the keyword arguments built for one Option, or the    *)
(* exception raised while building them.                                   *)
(***************************************************************************)
Raised(exc) == [raised |-> TRUE, exc |-> exc, spec |-> FlagSpec(<<>>, <<>>, "", <<>>, PyNone, "", PyNone, PyNone)]
Built(spec) == [raised |-> FALSE, exc |-> "", spec |-> spec]

\* a boolean branch that keeps the polarity of the default
BoolKwargs_same_polarity(key, dest, option) ==
    IF Truthy(option.value)
    THEN FlagSpec(FlagName(key), dest, "", <<>>, PyNone, "store_true",
                  option.value, PyBool(FALSE))
    ELSE FlagSpec(NoFlagName(key), dest, "", <<>>, PyNone, "store_false",
                  option.value, PyBool(TRUE))

\* lines 145-153: the flag of a boolean Option
BoolKwargs(key, dest, option) ==
    IF Truthy(option.value)
    THEN FlagSpec(NoFlagName(key), dest, "", <<>>, PyNone, "store_false",
                  option.value, PyBool(TRUE))
    ELSE FlagSpec(FlagName(key), dest, "", <<>>, PyNone, "store_true",
                  option.value, PyBool(FALSE))

OptionKwargs(extname, key, option) ==
    IF option.selectable /\ ~CanIndex0(option.value) THEN Raised("TypeError")
    ELSE
    LET default == IF ~option.selectable THEN option.value
                   ELSE option.value.items[1]
        dest == DestName(extname, key)
    IN  IF IsBasestring(option.value)
        THEN Built(FlagSpec(FlagName(key), dest, "unicode", Metavar(<<"str">>),
                            PyNone, "store", default, PyNone))
        ELSE IF IsBool(option.value)
        THEN Built(BoolKwargs(key, dest, option))
        ELSE IF IsFloat(option.value)
        THEN Built(FlagSpec(FlagName(key), dest, "float", Metavar(<<"float">>),
                            PyNone, "store", default, PyNone))
        ELSE IF IsInt(option.value)
        THEN Built(FlagSpec(FlagName(key), dest, "int", Metavar(<<"int">>),
                            PyNone, "store", default, PyNone))
        ELSE IF option.selectable
        THEN IF ~CanJoin(option.value.items) THEN Raised("TypeError")
             ELSE Built(FlagSpec(FlagName(key), dest,
                                 TypeOf(option.value.items[1]),
                                 Metavar(Join(option.value.items)),
                                 option.value, "store", default, PyNone))
        ELSE Raised("TypeError")

\* _add_argument_from_option: returns the parser, or raises and leaves the
\* parser as it was; either way the call is recorded in parser.attempts
add_argument_from_option(extname, key, option, parser) ==
    LET kw == OptionKwargs(extname, key, option)
        raised == kw.raised \/ Conflicts(parser, kw.spec.flag)
        exc == IF kw.raised THEN kw.exc ELSE "ArgumentError"
        logged == [parser EXCEPT !.attempts =
                      Append(@, [owner |-> extname, key |-> key,
                                 raised |-> raised])]
    IN  IF raised THEN [raised |-> TRUE, exc |-> exc, parser |-> logged]
        ELSE [raised |-> FALSE, exc |-> "",
              parser |-> add_argument(logged, kw.spec)]

\* _add_device_arguments: the first exception ends the loop (return)
RECURSIVE DeviceLoop(_, _, _)
DeviceLoop(tmpl, i, parser) ==
    IF i > Len(tmpl) THEN parser
    ELSE LET r == add_argument_from_option(DEVICE, tmpl[i].key, tmpl[i].option,
                                        parser)
         IN  IF r.raised THEN r.parser
             ELSE DeviceLoop(tmpl, i + 1, r.parser)

add_device_arguments(tmpl, parser) ==
    IF Len(tmpl) = 0 THEN parser ELSE DeviceLoop(tmpl, 1, parser)

\* an inner loop that gives up on the owner at the first exception
RECURSIVE PluginOptionLoop_return(_, _, _, _)
PluginOptionLoop_return(name, tmpl, i, parser) ==
    IF i > Len(tmpl) THEN parser
    ELSE LET r == add_argument_from_option(name, tmpl[i].key, tmpl[i].option,
                                        parser)
         IN  IF r.raised THEN r.parser
             ELSE PluginOptionLoop_return(name, tmpl, i + 1, r.parser)

\* _add_plugin_arguments, inner loop: an exception skips that one option
\* (continue)
RECURSIVE PluginOptionLoop(_, _, _, _)
PluginOptionLoop(name, tmpl, i, parser) ==
    IF i > Len(tmpl) THEN parser
    ELSE LET r == add_argument_from_option(name, tmpl[i].key, tmpl[i].option,
                                        parser)
         IN  PluginOptionLoop(name, tmpl, i + 1, r.parser)

\* get_relevant_extensions(pluginmanager, hooks): the extensions, in the
\* plugin manager's order, that declare interest in one of the hooks
RECURSIVE get_relevant_extensions(_, _)
get_relevant_extensions(extensions, hooks) ==
    IF Len(extensions) = 0 THEN <<>>
    ELSE (IF Head(extensions).hooks \cap hooks # {}
          THEN <<Head(extensions)>> ELSE <<>>)
         \o get_relevant_extensions(Tail(extensions), hooks)

RECURSIVE PluginExtLoop(_, _)
PluginExtLoop(extensions, parser) ==
    IF Len(extensions) = 0 THEN parser
    ELSE LET ext == Head(extensions)
         IN  IF Len(ext.tmpl) = 0
             THEN PluginExtLoop(Tail(extensions), parser)
             ELSE PluginExtLoop(Tail(extensions),
                                PluginOptionLoop(ext.name, ext.tmpl, 1, parser))

add_plugin_arguments(extensions, hooks, parser) ==
    PluginExtLoop(get_relevant_extensions(extensions, hooks), parser)

(***************************************************************************)
(* setup_parser: the parser surface.  Only the long option string of a     *)
(* fixed flag is kept; the short aliases -v and -j cannot clash with a     *)
(* synthesized flag, which always starts with "--".                        *)
(***************************************************************************)
VerboseFlag ==
    FlagSpec(<<"--", "verbose">>, <<"verbose">>, "", <<>>, PyNone,
             "store_true", PyNone, PyBool(FALSE))
PathArgument ==
    FlagSpec(<<"path">>, <<"path">>, "unicode", <<>>, PyNone,
             "positional", PyNone, PyNone)
ParallelCaptureFlag ==
    FlagSpec(<<"--", "no-", "parallel-capture">>, <<"parallel_capture">>, "",
             <<>>, PyNone, "store_false", PyNone, PyBool(TRUE))
JobsFlag ==
    FlagSpec(<<"--", "jobs">>, <<"jobs">>, "int", Metavar(<<"int">>), PyNone,
             "store", PyNone, PyNone)

Subcommands == {"wizard", "capture", "postprocess", "output"}

\* the capture and wizard parsers after the loop of lines 208-215
CaptureSurface(drv, exts) ==
    add_device_arguments(drv,
        add_plugin_arguments(exts, CaptureHooks,
            add_argument(EmptyParser, ParallelCaptureFlag)))

setup_parser_wizard_capture_only(drv, exts) ==
    [root |-> add_argument(add_argument(EmptyParser, VerboseFlag), PathArgument),
     capture |-> CaptureSurface(drv, exts),
     postprocess |-> add_plugin_arguments(exts, ProcessHooks,
                        add_argument(EmptyParser, JobsFlag)),
     output |-> add_plugin_arguments(exts, OutputHooks, EmptyParser),
     wizard |-> CaptureSurface(drv, exts)]
setup_parser(drv, exts) ==
    [root |-> add_argument(add_argument(EmptyParser, VerboseFlag), PathArgument),
     capture |-> CaptureSurface(drv, exts),
     postprocess |-> add_plugin_arguments(exts, ProcessHooks,
                        add_argument(EmptyParser, JobsFlag)),
     output |-> add_plugin_arguments(exts, OutputHooks, EmptyParser),
     wizard |-> add_plugin_arguments(exts, OutputHooks,
                    add_plugin_arguments(exts, ProcessHooks,
                        CaptureSurface(drv, exts)))]

NoParsers ==
    [root |-> EmptyParser, capture |-> EmptyParser,
     postprocess |-> EmptyParser, output |-> EmptyParser,
     wizard |-> EmptyParser]

(***************************************************************************)
(* The configuration (spreads.confit): three layers, highest first: values *)
(* assigned by the program, the content of the file read at startup, the   *)
(* defaults declared by the driver and the extensions.  A key is a path of *)
(* one or two segments.                                                    *)
(***************************************************************************)
EmptyMap == [p \in {} |-> PyNone]
PyMissing == [t |-> "missing", v |-> "", items |-> <<>>]

EmptyConfig == [overrides |-> EmptyMap, file |-> EmptyMap, defaults |-> EmptyMap]

ConfigKeys(cfg) ==
    DOMAIN cfg.overrides \cup DOMAIN cfg.file \cup DOMAIN cfg.defaults

\* config[section][key].get()
ConfigGet(cfg, path) ==
    IF path \in DOMAIN cfg.overrides THEN cfg.overrides[path]
    ELSE IF path \in DOMAIN cfg.file THEN cfg.file[path]
    ELSE IF path \in DOMAIN cfg.defaults THEN cfg.defaults[path]
    ELSE PyMissing

\* config[section][key] = value
ConfigSet(cfg, path, value) ==
    [cfg EXCEPT !.overrides =
        [p \in DOMAIN @ \cup {path} |-> IF p = path THEN value ELSE @[p]]]

\* config.dump(): the resolved value of every key
Flatten(cfg) == [p \in ConfigKeys(cfg) |-> ConfigGet(cfg, p)]

\* the default an Option declares
DeclaredDefault(option) ==
    IF option.selectable /\ CanIndex0(option.value)
    THEN option.value.items[1] ELSE option.value

\* setup_plugin_config(config): the declared defaults of every extension
\* and of the driver
PluginDefaults(drv, exts) ==
    LET owners == {DEVICE} \cup {exts[i].name : i \in 1..Len(exts)}
        tmplOf(o) == IF o = DEVICE THEN drv
                     ELSE exts[CHOOSE i \in 1..Len(exts) : exts[i].name = o].tmpl
        pathsOf(o) == {<<o, tmplOf(o)[i].key>> : i \in 1..Len(tmplOf(o))}
        optOf(p) == LET t == tmplOf(p[1])
                    IN  t[CHOOSE i \in 1..Len(t) : t[i].key = p[2]].option
    IN  [p \in UNION {pathsOf(o) : o \in owners} |-> DeclaredDefault(optOf(p))]

(***************************************************************************)
(* argparse: parse_args.                                                   *)
(***************************************************************************)
RawPool == {"landscape", "2", "1.5"}
IsIntLiteral(raw) == raw \in {"1", "2"}
IsFloatLiteral(raw) == raw \in {"1", "2", "1.5"}
FloatRepr(raw) == IF raw = "1" THEN "1.0" ELSE IF raw = "2" THEN "2.0" ELSE raw

\* type(raw) raises ValueError for a malformed literal
CanConvert(type, raw) ==
    CASE type = "unicode" -> TRUE
      [] type = "int" -> IsIntLiteral(raw)
      [] type = "float" -> IsFloatLiteral(raw)
      [] OTHER -> FALSE

Convert(type, raw) ==
    CASE type = "int" -> PyInt(raw)
      [] type = "float" -> PyFloat(FloatRepr(raw))
      [] OTHER -> PyStr(raw)

\* the value an occurrence of the flag stores, and whether it is accepted
Accepts(spec, raw) ==
    IF spec.action # "store" THEN TRUE
    ELSE CanConvert(spec.type, raw) /\
         (spec.choices = PyNone \/
          Convert(spec.type, raw) \in Range(spec.choices.items))

Stored(spec, raw) ==
    CASE spec.action = "store_true" -> PyBool(TRUE)
      [] spec.action = "store_false" -> PyBool(FALSE)
      [] OTHER -> Convert(spec.type, raw)

\* the command lines: which optional flags are given, and with which text
CommandLines(flags) ==
    UNION {{c \in [S -> RawPool \cup {""}] :
               \A i \in S : (flags[i].action = "store") <=> (c[i] # "")} :
           S \in {T \in SUBSET {i \in 1..Len(flags) :
                                   flags[i].action # "positional"} :
                      Cardinality(T) <= MaxSupplied}}

ProjectPath == PyStr("project")

\* the Namespace parse_args returns: every dest of the root parser and of
\* the chosen subparser, with the given value or the flag's default, and
\* the subparser's set_defaults(subcommand=...)
Namespace(flags, cl, sc) ==
    LET dests == {flags[i].dest : i \in 1..Len(flags)}
        given(d) == {i \in DOMAIN cl : flags[i].dest = d}
        first(d) == CHOOSE i \in 1..Len(flags) :
                        /\ flags[i].dest = d
                        /\ \A j \in 1..(i - 1) : flags[j].dest # d
        valueOf(d) ==
            IF given(d) # {}
            THEN LET i == CHOOSE j \in given(d) : \A k \in given(d) : k <= j
                 IN  Stored(flags[i], cl[i])
            ELSE IF flags[first(d)].action = "positional" THEN ProjectPath
            ELSE flags[first(d)].argdefault
    IN  [d \in dests \cup {<<"subcommand">>} |->
            IF d = <<"subcommand">> THEN PyStr(sc) ELSE valueOf(d)]

(***************************************************************************)
(* main: the merge of the parsed arguments into the configuration.         *)
(***************************************************************************)
\* argkey.split('.')
RECURSIVE Split(_)
Split(tokens) ==
    IF "." \notin Range(tokens) THEN <<tokens>>
    ELSE LET i == CHOOSE j \in 1..Len(tokens) :
                      tokens[j] = "." /\ \A k \in 1..(j - 1) : tokens[k] # "."
         IN  <<SubSeq(tokens, 1, i - 1)>> \o
             Split(SubSeq(tokens, i + 1, Len(tokens)))

\* line 262: the entries the loop passes over
Skipped_subcommand(argkey, value) ==
    value = PyNone \/ argkey = <<"subcommand">>
Skipped(argkey, value) == value = PyNone \/ argkey = <<"func">>

\* a merge that sets every entry at the top level
TargetPath_flat(argkey) == <<argkey>>

\* lines 264-268: where an entry is written
TargetPath(argkey) ==
    IF "." \in Range(argkey) THEN Split(argkey) ELSE <<argkey>>

\* section, key = argkey.split('.') raises ValueError unless two parts
Unpacks(argkey) == "." \in Range(argkey) => Len(Split(argkey)) = 2

RECURSIVE MergeLoop(_, _, _)
MergeLoop(cfg, ns, todo) ==
    IF todo = {} THEN cfg
    ELSE LET argkey == CHOOSE k \in todo : TRUE
         IN  MergeLoop(IF Skipped(argkey, ns[argkey]) THEN cfg
                       ELSE ConfigSet(cfg, TargetPath(argkey), ns[argkey]),
                       ns, todo \ {argkey})

MergeArguments(cfg, ns) == MergeLoop(cfg, ns, DOMAIN ns)

(***************************************************************************)
(* capture: the checks before arming, the keys and the rate.               *)
(***************************************************************************)
Device(orientation) == [orientation |-> orientation]

Orientations == {PyNone, PyStr("odd")}

DevicePool ==
    UNION {[1..n -> {Device(o) : o \in Orientations}] : n \in 0..MaxDevices}

NoException == [type |-> "", reason |-> "", found |-> 0]
Exception(type, reason, found) ==
    [type |-> type, reason |-> reason, found |-> found]

\* a check that only asks for at least the required number of devices
DeviceCheck_at_least(devs) ==
    IF Len(devs) < RequiredDevices
    THEN Exception("DeviceException", "count", Len(devs))
    ELSE IF \E i \in 1..Len(devs) : ~Truthy(devs[i].orientation)
    THEN Exception("DeviceException", "orientation", 0)
    ELSE NoException

\* lines 64-73: the exception capture raises for these devices, if any
DeviceCheck(devs) ==
    IF Len(devs) # RequiredDevices
    THEN Exception("DeviceException", "count", Len(devs))
    ELSE IF \E i \in 1..Len(devs) : ~Truthy(devs[i].orientation)
    THEN Exception("DeviceException", "orientation", 0)
    ELSE NoException

\* getch(): the keys of the terminal
Keys == {"b", "B", " ", "q"}
\* unicode.lower()
Lower(k) == IF k = "B" THEN "b" ELSE k
\* workflow.config['capture']['capture_keys'].as_str_seq()
capture_keys == {"b", " "}

\* line 84: the test that ends the loop
Breaks(k) == Lower(k) \notin capture_keys

\* line 87: shot_count += len(workflow.devices)
IncrementShots_by_one(count, devs) == count + 1
IncrementShots(count, devs) == count + Len(devs)

\* line 88: (3600/(time.time() - start_time))*shot_count, as a fraction of
\* integers; the division raises ZeroDivisionError when nothing elapsed
RateRaises(seconds) == seconds = 0
Rate_per_shot(seconds, shots) ==
    [num |-> SecondsPerHour, den |-> seconds * shots]
Rate(seconds, shots) == [num |-> SecondsPerHour * shots, den |-> seconds]
ZeroRate == [num |-> 0, den |-> 1]

Count(log, name) == Cardinality({i \in 1..Len(log) : log[i] = name})

(***************************************************************************)
(* The plugin environments and the configuration files of the model.       *)
(***************************************************************************)
Extension(name, hooks, tmpl) == [name |-> name, hooks |-> hooks, tmpl |-> tmpl]
Environment(drv, exts) == [driver |-> drv, extensions |-> exts]

\* every kind of flag, on the capture and on the postprocess parser
EnvKinds ==
    Environment(<<Entry(KeyOrientation, OptSelStr), Entry(KeyW, OptTrue)>>,
                <<Extension(ExtA, {"prepare_capture", "capture"},
                            <<Entry(KeyX, OptFalse), Entry(KeyY, OptInt)>>),
                  Extension(ExtB, {"process", "output"},
                            <<Entry(KeyX, OptFloat), Entry(KeyY, OptStr)>>)>>)
\* options the synthesizer cannot map, an extension of two passes
EnvQuirks ==
    Environment(<<Entry(KeyX, OptNone), Entry(KeyY, OptStr)>>,
                <<Extension(ExtA, {"capture", "process"},
                            <<Entry(KeyX, OptSelInt), Entry(KeyY, OptTrue)>>)>>)
\* no driver options, no extensions
EnvBare == Environment(<<>>, <<>>)

Environments == {EnvKinds, EnvQuirks, EnvBare}

OptionPool ==
    {OptTrue, OptFalse, OptStr, OptInt, OptFloat, OptSelStr, OptSelInt, OptNone}

\* the templates of at most two options, over the keys x and y
Templates ==
    {<<>>} \cup {<<Entry(KeyX, o)>> : o \in OptionPool}
           \cup {<<Entry(KeyX, o1), Entry(KeyY, o2)>> :
                    o1 \in OptionPool, o2 \in OptionPool}

HookSets == {{"capture"}, {"capture", "process"}, {"process", "output"}}

SynthEnvironments ==
    {Environment(d, <<Extension(ExtA, h, t),
                      Extension(ExtB, {"finish_capture", "output"},
                                <<Entry(KeyY, OptFalse)>>)>>) :
        d \in Templates, t \in Templates, h \in HookSets}

FilePaths ==
    {<<DEVICE, KeyOrientation>>, <<DEVICE, KeyW>>, <<ExtA, KeyX>>, <<ExtA, KeyY>>,
     <<<<"parallel_capture">>>>, <<<<"verbose">>>>}

FileContents ==
    {[p \in FilePaths |-> v] :
        v \in {PyBool(TRUE), PyBool(FALSE), PyStr("portrait")}}

VARIABLES
    pc,             \* position in main and in the handlers
    driver,         \* the driver's configuration template
    extensions,     \* the extensions of the plugin manager, in its order
    file_exists,    \* os.path.exists(cfg_path)
    file,           \* the content of the configuration file
    existed,        \* whether the file existed when the process started
    config,         \* the LazyConfig
    parsers,        \* the parsers setup_parser built
    args,           \* the Namespace of parse_args
    supplied,       \* the dests the command line gave a value for
    handler,        \* the subcommand callback main called
    devices,        \* workflow.devices
    calls,          \* the calls made on the workflow
    shot_count,
    elapsed,        \* time.time() - start_time, as last read
    pages_per_hour,
    key,            \* the last key getch() returned
    exc             \* the exception that ended the run

vars ==
    <<pc, driver, extensions, file_exists, file, existed, config, parsers,
      args, supplied, handler, devices, calls, shot_count, elapsed,
      pages_per_hour, key, exc>>

envVars == <<driver, extensions>>
fileVars == <<file_exists, file, existed>>
parseVars == <<parsers, args, supplied>>
captureVars == <<devices, calls, shot_count, elapsed, pages_per_hour, key>>

InitRest ==
    /\ pc = "start"
    /\ config = EmptyConfig
    /\ parsers = NoParsers
    /\ args = EmptyMap
    /\ supplied = {}
    /\ handler = ""
    /\ devices = <<>>
    /\ calls = <<>>
    /\ shot_count = 0
    /\ elapsed = 0
    /\ pages_per_hour = ZeroRate
    /\ key = ""
    /\ exc = NoException

Init ==
    /\ \E env \in Environments :
          driver = env.driver /\ extensions = env.extensions
    /\ file_exists \in BOOLEAN
    /\ existed = file_exists
    /\ file \in (IF file_exists THEN FileContents ELSE {EmptyMap})
    /\ InitRest

SynthInit ==
    /\ \E env \in SynthEnvironments :
          driver = env.driver /\ extensions = env.extensions
    /\ file_exists = FALSE
    /\ existed = FALSE
    /\ file = EmptyMap
    /\ InitRest

Raise(e) == pc' = "raised" /\ exc' = e

(***************************************************************************)
(* main                                                                    *)
(***************************************************************************)
\* lines 248-251: config.read() and setup_plugin_config(config)
ReadConfig ==
    /\ pc = "start"
    /\ config' = [overrides |-> EmptyMap,
                  file |-> IF file_exists THEN file ELSE EmptyMap,
                  defaults |-> PluginDefaults(driver, extensions)]
    /\ pc' = "dump"
    /\ UNCHANGED <<envVars, fileVars, parseVars, handler, captureVars, exc>>

\* a dump that does not look whether the file is there
DumpDefaults_always ==
    /\ pc = "dump"
    /\ file_exists' = TRUE /\ file' = Flatten(config)
    /\ pc' = "setup_parser"
    /\ UNCHANGED <<envVars, existed, config, parseVars, handler, captureVars,
                   exc>>

\* lines 253-256: write the configuration if there is no file yet
DumpDefaults ==
    /\ pc = "dump"
    /\ IF ~file_exists
       THEN file_exists' = TRUE /\ file' = Flatten(config)
       ELSE UNCHANGED <<file_exists, file>>
    /\ pc' = "setup_parser"
    /\ UNCHANGED <<envVars, existed, config, parseVars, handler, captureVars,
                   exc>>

\* line 258
BuildParser ==
    /\ pc = "setup_parser"
    /\ parsers' = setup_parser(driver, extensions)
    /\ pc' = "parse_args"
    /\ UNCHANGED <<envVars, fileVars, config, args, supplied, handler,
                   captureVars, exc>>

\* line 259: a usage error ends the process
ParseArgs ==
    /\ pc = "parse_args"
    /\ \E sc \in Subcommands :
          LET flags == parsers.root.flags \o parsers[sc].flags
          IN  \E cl \in CommandLines(flags) :
                IF \A i \in DOMAIN cl : Accepts(flags[i], cl[i])
                THEN /\ args' = Namespace(flags, cl, sc)
                     /\ supplied' = {flags[i].dest : i \in DOMAIN cl}
                                        \cup {<<"path">>, <<"subcommand">>}
                     /\ pc' = "merge"
                     /\ exc' = exc
                ELSE /\ Raise(Exception("SystemExit", "usage", 2))
                     /\ UNCHANGED <<args, supplied>>
    /\ UNCHANGED <<envVars, fileVars, config, parsers, handler, captureVars>>

\* a merge that is followed by the dump of a configuration not yet on disk
Merge_then_dump ==
    /\ pc = "merge"
    /\ config' = MergeArguments(config, args)
    /\ file' = IF existed THEN file ELSE Flatten(config')
    /\ pc' = "dispatch"
    /\ UNCHANGED <<envVars, file_exists, existed, parseVars, handler,
                   captureVars, exc>>

\* lines 260-268
Merge ==
    /\ pc = "merge"
    /\ IF \A k \in DOMAIN args : Skipped(k, args[k]) \/ Unpacks(k)
       THEN /\ config' = MergeArguments(config, args)
            /\ pc' = "dispatch"
            /\ exc' = exc
       ELSE /\ Raise(Exception("ValueError", "unpack", 0))
            /\ UNCHANGED config
    /\ UNCHANGED <<envVars, fileVars, parseVars, handler, captureVars>>

\* the function main looks up under the name config["subcommand"]
SubcommandName(cfg) == ConfigGet(cfg, <<<<"subcommand">>>>).v

\* lines 270-296: the logger, the workflow and the call of the handler
Dispatch ==
    /\ pc = "dispatch"
    /\ LET name == SubcommandName(config)
       IN  IF name \in Subcommands
           THEN /\ handler' = name
                /\ pc' = IF name \in {"wizard", "capture"} THEN "capture"
                          ELSE name
                /\ exc' = exc
           ELSE /\ Raise(Exception("KeyError", "subcommand", 0))
                /\ UNCHANGED handler
    /\ UNCHANGED <<envVars, fileVars, config, parseVars, captureVars>>

(***************************************************************************)
(* The handlers: capture, postprocess, output and wizard.                  *)
(***************************************************************************)
\* where a handler returns to: wizard goes on with its next stage
AfterCapture_skip_postprocess ==
    IF handler = "wizard" THEN "output" ELSE "deinit"
AfterCapture == IF handler = "wizard" THEN "postprocess" ELSE "deinit"
AfterPostprocess == IF handler = "wizard" THEN "output" ELSE "deinit"

\* lines 64-73: the devices of the workflow are found and checked
CaptureCheck ==
    /\ pc = "capture"
    /\ \E devs \in DevicePool :
          /\ devices' = devs
          /\ IF DeviceCheck(devs) # NoException
             THEN Raise(DeviceCheck(devs))
             ELSE pc' = "armed" /\ exc' = exc
    /\ UNCHANGED <<envVars, fileVars, config, parseVars, handler, calls,
                   shot_count, elapsed, pages_per_hour, key>>

\* lines 74-82
PrepareCapture ==
    /\ pc = "armed"
    /\ calls' = Append(calls, "prepare_capture")
    /\ shot_count' = 0
    /\ elapsed' = 0
    /\ pages_per_hour' = ZeroRate
    /\ pc' = "capturing"
    /\ UNCHANGED <<envVars, fileVars, config, parseVars, handler, devices,
                   key, exc>>

\* lines 83-93, a capture key: one pass of the loop body
CaptureKey ==
    /\ pc = "capturing"
    /\ Count(calls, "capture") < MaxCaptures
    /\ \E k \in Keys :
          /\ ~Breaks(k)
          /\ key' = k
    /\ calls' = Append(calls, "capture")
    /\ shot_count' = IncrementShots(shot_count, devices)
    /\ \E now \in elapsed..MaxElapsed :
          /\ elapsed' = now
          /\ IF RateRaises(now)
             THEN /\ Raise(Exception("ZeroDivisionError", "rate", 0))
                  /\ UNCHANGED pages_per_hour
             ELSE /\ pages_per_hour' = Rate(now, shot_count')
                  /\ pc' = "capturing"
                  /\ exc' = exc
    /\ UNCHANGED <<envVars, fileVars, config, parseVars, handler, devices>>

\* lines 84-85, any other key: break
StopKey ==
    /\ pc = "capturing"
    /\ \E k \in Keys :
          /\ Breaks(k)
          /\ key' = k
    /\ pc' = "stopped"
    /\ UNCHANGED <<envVars, fileVars, config, parseVars, handler, devices,
                   calls, shot_count, elapsed, pages_per_hour, exc>>

\* lines 94-99: finish_capture and the final report; capture returns
FinishCapture ==
    /\ pc = "stopped"
    /\ calls' = Append(calls, "finish_capture")
    /\ pc' = AfterCapture
    /\ UNCHANGED <<envVars, fileVars, config, parseVars, handler, devices,
                   shot_count, elapsed, pages_per_hour, key, exc>>

\* lines 102-103
Postprocess ==
    /\ pc = "postprocess"
    /\ calls' = Append(calls, "process")
    /\ pc' = AfterPostprocess
    /\ UNCHANGED <<envVars, fileVars, config, parseVars, handler, devices,
                   shot_count, elapsed, pages_per_hour, key, exc>>

\* lines 106-107
Output ==
    /\ pc = "output"
    /\ calls' = Append(calls, "output")
    /\ pc' = "deinit"
    /\ UNCHANGED <<envVars, fileVars, config, parseVars, handler, devices,
                   shot_count, elapsed, pages_per_hour, key, exc>>

\* lines 298-299
Deinit ==
    /\ pc = "deinit"
    /\ pc' = "done"
    /\ UNCHANGED <<envVars, fileVars, config, parseVars, handler, captureVars,
                   exc>>

Next ==
    \/ ReadConfig
    \/ DumpDefaults
    \/ BuildParser
    \/ ParseArgs
    \/ Merge
    \/ Dispatch
    \/ CaptureCheck
    \/ PrepareCapture
    \/ CaptureKey
    \/ StopKey
    \/ FinishCapture
    \/ Postprocess
    \/ Output
    \/ Deinit

Spec == Init /\ [][Next]_vars

\* the flag synthesizer over every template of the option pool
\* the session under the assumption that a key that is no capture key is
\* pressed at some time; capture() goes on to finish_capture by itself
FairSpec == Spec /\ WF_vars(StopKey) /\ WF_vars(FinishCapture)

SynthNext ==
    \/ ReadConfig
    \/ DumpDefaults
    \/ BuildParser

SynthSpec == SynthInit /\ [][SynthNext]_vars

(***************************************************************************)
(* Vocabulary of the properties.                                           *)
(***************************************************************************)
OwnerNames == {DEVICE, ExtA, ExtB}
KeyNames == {KeyX, KeyY, KeyOrientation, KeyW}

\* the merge has run
Merged ==
    \/ pc \in {"dispatch", "capture", "armed", "capturing", "stopped",
                "postprocess", "output", "deinit", "done"}
    \/ pc = "raised" /\ exc.type \in {"KeyError", "DeviceException",
                                       "ZeroDivisionError"}

\* the configuration as it stood before the merge
BeforeMerge == [config EXCEPT !.overrides = EmptyMap]

\* C1: after the merge, every dest the command line gave a value for
\* (dotted section.key or bare) holds that value in the configuration,
\* whatever the file or the declared default held there.
C1_CommandLineWins ==
    Merged =>
        /\ \A o \in OwnerNames, k \in KeyNames :
              DestName(o, k) \in supplied =>
                  ConfigGet(config, <<o, k>>) = args[DestName(o, k)]
        /\ \A d \in supplied :
              "." \notin Range(d) => ConfigGet(config, <<d>>) = args[d]

C1_Witness ==
    /\ Merged
    /\ DestName(DEVICE, KeyOrientation) \in supplied
    /\ <<DEVICE, KeyOrientation>> \in DOMAIN config.file
    /\ config.file[<<DEVICE, KeyOrientation>>] = PyStr("portrait")
    /\ ConfigGet(config, <<DEVICE, KeyOrientation>>) = PyStr("landscape")

\* C2: with no file at startup, from the dump on the file exists and holds
\* the configuration as it stood before the arguments were parsed (the
\* declared defaults); a value given only on the command line is not in it.
C2_DumpBeforeMerge ==
    (~existed /\ pc \notin {"start", "dump"}) =>
        /\ file_exists
        /\ file = PluginDefaults(driver, extensions)
        /\ \A o \in OwnerNames, k \in KeyNames :
              (/\ DestName(o, k) \in supplied
               /\ <<o, k>> \in DOMAIN file
               /\ args[DestName(o, k)] # config.defaults[<<o, k>>])
              => file[<<o, k>>] # args[DestName(o, k)]
        /\ \A d \in supplied : "." \notin Range(d) => <<d>> \notin DOMAIN file

C2_Witness ==
    /\ ~existed
    /\ pc = "done"
    /\ DestName(DEVICE, KeyOrientation) \in supplied
    /\ ConfigGet(config, <<DEVICE, KeyOrientation>>) = PyStr("landscape")
    /\ file[<<DEVICE, KeyOrientation>>] = PyStr("portrait")

\* C3 (as claimed): after the merge, every dest of the parse result that the
\* command line gave no value for, and that the file or a declared default
\* gave a value, still has that value in the configuration.
C3_UnsuppliedKept ==
    Merged =>
        \A d \in DOMAIN args \ supplied :
            LET path == IF "." \in Range(d) THEN Split(d) ELSE <<d>>
            IN  path \in ConfigKeys(BeforeMerge) =>
                    ConfigGet(config, path) = ConfigGet(BeforeMerge, path)

\* capture has looked at the devices
DevicesChecked == handler \in {"wizard", "capture"} /\ pc # "capture"
DeviceFailure == pc = "raised" /\ exc.type = "DeviceException"
AllOriented == \A i \in 1..Len(devices) : Truthy(devices[i].orientation)

\* C4: capture arms if and only if there are exactly two devices and every
\* one has its orientation set; any other count raises DeviceException
\* with the count found, two devices with an orientation unset raise
\* DeviceException for the configuration; a failed check calls nothing.
C4_ArmingCheck ==
    DevicesChecked =>
        /\ ~DeviceFailure <=> (Len(devices) = 2 /\ AllOriented)
        /\ (DeviceFailure /\ Len(devices) # 2) =>
               exc.reason = "count" /\ exc.found = Len(devices)
        /\ (DeviceFailure /\ Len(devices) = 2) => exc.reason = "orientation"
        /\ DeviceFailure => calls = <<>>
        /\ ~DeviceFailure => (pc = "armed" \/ Head(calls) = "prepare_capture")

C4_Witness ==
    /\ DevicesChecked
    /\ DeviceFailure
    /\ Len(devices) = 3
    /\ AllOriented
    /\ exc.found = 3

\* the capture loop has been left
LeftCapturing ==
    /\ Count(calls, "prepare_capture") > 0
    /\ pc \notin {"capturing", "stopped"}

\* C5 (as claimed): the loop goes on while capture keys are pressed, is
\* left by the first other key only, and whenever it has been left
\* finish_capture has been called exactly once.
C5_FinishOnEveryExit ==
    /\ pc = "stopped" => Breaks(key)
    /\ LeftCapturing => Count(calls, "finish_capture") = 1

\* C6 (as claimed): the rate computation never raises a division error, and
\* after a capture made when no time had elapsed the rate is 0.
C6_RateAtZero ==
    /\ exc.type # "ZeroDivisionError"
    /\ (Count(calls, "capture") > 0 /\ elapsed = 0) => pages_per_hour.num = 0

(***************************************************************************)
(* Vocabulary of the properties of the parser surface.                     *)
(***************************************************************************)
ParsersBuilt == pc \notin {"start", "dump", "setup_parser"}

\* the hooks of the passes that fill a parser (lines 208-234)
PassHooks(p) ==
    CASE p = "capture" -> CaptureHooks
      [] p = "postprocess" -> ProcessHooks
      [] p = "output" -> OutputHooks
      [] p = "wizard" -> CaptureHooks \cup ProcessHooks \cup OutputHooks

\* the owners whose options setup_parser offers to parser p
OwnersOf(p) ==
    (IF p \in {"capture", "wizard"} THEN {DEVICE} ELSE {})
    \cup {extensions[i].name : i \in {j \in 1..Len(extensions) :
              extensions[j].hooks \cap PassHooks(p) # {}}}

TemplateOf(o) ==
    IF o = DEVICE THEN driver
    ELSE extensions[CHOOSE i \in 1..Len(extensions) :
                        extensions[i].name = o].tmpl

FlagsAt(p, dest) ==
    {i \in 1..Len(parsers[p].flags) : parsers[p].flags[i].dest = dest}

Attempted(p, o, k) ==
    \E i \in 1..Len(parsers[p].attempts) :
        parsers[p].attempts[i].owner = o /\ parsers[p].attempts[i].key = k

\* the flag name is held by a flag of another dest
NameTaken(p, flag, dest) ==
    \E i \in 1..Len(parsers[p].flags) :
        parsers[p].flags[i].flag = flag /\ parsers[p].flags[i].dest # dest

Qualified(o, k) == o \o <<".">> \o k
Enabling(k) == <<"--">> \o k
Disabling(k) == <<"--", "no-">> \o k

\* the one flag a boolean Option with this default may have
RightPolarity(f, k, value) ==
    /\ f.type = ""
    /\ f.choices = PyNone
    /\ IF value = PyBool(TRUE)
       THEN f.flag = Disabling(k) /\ f.action = "store_false"
       ELSE f.flag = Enabling(k) /\ f.action = "store_true"

BoolFlagName(k, value) ==
    IF value = PyBool(TRUE) THEN Disabling(k) ELSE Enabling(k)

\* C7 (as claimed): every boolean Option of an owner of a parser has exactly
\* one flag on it, of the polarity inverse to its default.
C7_ExactlyOneBoolFlag ==
    ParsersBuilt =>
        \A p \in Subcommands : \A o \in OwnersOf(p) :
            \A i \in 1..Len(TemplateOf(o)) :
                LET e == TemplateOf(o)[i]
                    at == FlagsAt(p, Qualified(o, e.key))
                IN  IsBool(e.option.value) =>
                        /\ Cardinality(at) = 1
                        /\ \A n \in at :
                              RightPolarity(parsers[p].flags[n], e.key,
                                            e.option.value)

\* C7: a boolean Option never has more than one flag on a parser, and a
\* flag it has is the single disabling --no-<key> flag (store_false) for
\* default true, the single enabling --<key> flag (store_true) for default
\* false, never a typed integer flag; it has exactly one whenever
\* _add_argument_from_option is called for it and its flag name is not held
\* by another Option's flag on that parser.
C7_AtMostOneBoolFlag ==
    ParsersBuilt =>
        \A p \in Subcommands : \A o \in OwnersOf(p) :
            \A i \in 1..Len(TemplateOf(o)) :
                LET e == TemplateOf(o)[i]
                    dest == Qualified(o, e.key)
                    at == FlagsAt(p, dest)
                IN  IsBool(e.option.value) =>
                        /\ Cardinality(at) <= 1
                        /\ \A n \in at :
                              RightPolarity(parsers[p].flags[n], e.key,
                                            e.option.value)
                        /\ (/\ Attempted(p, o, e.key)
                            /\ ~NameTaken(p, BoolFlagName(e.key, e.option.value),
                                          dest))
                           => Cardinality(at) = 1

C7_Witness ==
    /\ ParsersBuilt
    /\ Len(driver) = 2
    /\ driver[1].option = OptTrue
    /\ driver[2].option = OptFalse
    /\ \E n \in FlagsAt("capture", Qualified(DEVICE, KeyX)) :
          parsers.capture.flags[n].action = "store_false"
    /\ FlagsAt("capture", Qualified(DEVICE, KeyY)) = {}

\* the keyword arguments cannot be built for the Option (TypeError)
Unsupported(o, e) == OptionKwargs(o, e.key, e.option).raised

\* C8 (as claimed): every selectable Option with non-empty choices, of any
\* element type, that the synthesizer is called for and whose flag name is
\* free has a flag that accepts exactly its choices and whose default is
\* choices[0].
C8_SelectableFlag ==
    ParsersBuilt =>
        \A p \in Subcommands : \A o \in OwnersOf(p) :
            \A i \in 1..Len(TemplateOf(o)) :
                LET e == TemplateOf(o)[i]
                    dest == Qualified(o, e.key)
                IN  (/\ e.option.selectable
                     /\ Len(e.option.value.items) > 0
                     /\ Attempted(p, o, e.key)
                     /\ ~NameTaken(p, Enabling(e.key), dest))
                    => \E n \in FlagsAt(p, dest) :
                          /\ parsers[p].flags[n].choices = e.option.value
                          /\ parsers[p].flags[n].default =
                                 e.option.value.items[1]

\* C9 (as claimed): when an Option of an owner cannot be synthesized, it
\* has no flag and no later Option of that owner is attempted, for the
\* driver and for extensions alike.
C9_OwnerTruncated ==
    ParsersBuilt =>
        \A p \in Subcommands : \A o \in OwnersOf(p) :
            \A i \in 1..Len(TemplateOf(o)) :
                Unsupported(o, TemplateOf(o)[i]) =>
                    /\ FlagsAt(p, Qualified(o, TemplateOf(o)[i].key)) = {}
                    /\ \A j \in (i + 1)..Len(TemplateOf(o)) :
                          ~Attempted(p, o, TemplateOf(o)[j].key)

\* C9: an Option that cannot be synthesized has no flag.  For the driver no
\* later Option is attempted or registered: a driver Option is attempted
\* exactly when every earlier one was registered.  For an extension every
\* other Option, later ones included, is still attempted on each parser the
\* extension is relevant to.  Every attempted Option that can be synthesized
\* and whose flag name is free is registered, whatever failed before it or
\* for another owner.
C9_DriverTruncatedExtensionSkips ==
    ParsersBuilt =>
        \A p \in Subcommands : \A o \in OwnersOf(p) :
            \A i \in 1..Len(TemplateOf(o)) :
                LET t == TemplateOf(o)
                    dest == Qualified(o, t[i].key)
                IN  /\ Unsupported(o, t[i]) => FlagsAt(p, dest) = {}
                    /\ (o = DEVICE /\ Unsupported(o, t[i])) =>
                           \A j \in (i + 1)..Len(t) :
                               /\ ~Attempted(p, o, t[j].key)
                               /\ FlagsAt(p, Qualified(o, t[j].key)) = {}
                    /\ o = DEVICE =>
                           (Attempted(p, o, t[i].key) <=>
                              \A j \in 1..(i - 1) :
                                  FlagsAt(p, Qualified(o, t[j].key)) # {})
                    /\ o # DEVICE => Attempted(p, o, t[i].key)
                    /\ (/\ Attempted(p, o, t[i].key)
                        /\ ~Unsupported(o, t[i])
                        /\ ~NameTaken(p, OptionKwargs(o, t[i].key,
                                                      t[i].option).spec.flag,
                                      dest))
                       => FlagsAt(p, dest) # {}

C9_Witness ==
    /\ ParsersBuilt
    /\ Len(driver) = 2
    /\ driver[1].option = OptNone
    /\ driver[2].option = OptTrue
    /\ FlagsAt("capture", Qualified(DEVICE, KeyY)) = {}
    /\ ExtA \in OwnersOf("capture")
    /\ Len(TemplateOf(ExtA)) = 2
    /\ TemplateOf(ExtA)[1].option = OptNone
    /\ TemplateOf(ExtA)[2].option = OptTrue
    /\ FlagsAt("capture", Qualified(ExtA, KeyX)) = {}
    /\ FlagsAt("capture", Qualified(ExtA, KeyY)) # {}

FixedFlags == {VerboseFlag, PathArgument, ParallelCaptureFlag, JobsFlag}

\* C10: on every parser the dests of the flags are pairwise distinct, and
\* the dest of every synthesized flag is <owner>.<key> for exactly one
\* Option of the owners of that parser.
C10_DestsUnique ==
    ParsersBuilt =>
        \A p \in Subcommands :
            LET fs == parsers[p].flags
            IN  /\ \A i \in 1..Len(fs), j \in 1..Len(fs) :
                      i # j => fs[i].dest # fs[j].dest
                /\ \A i \in 1..Len(fs) :
                      fs[i] \notin FixedFlags =>
                          Cardinality({<<o, n>> \in
                              {<<o2, n2>> \in OwnersOf(p) \X (1..2) :
                                  n2 <= Len(TemplateOf(o2))} :
                              fs[i].dest = Qualified(o, TemplateOf(o)[n].key)})
                          = 1

C10_Witness ==
    /\ ParsersBuilt
    /\ FlagsAt("capture", Qualified(ExtA, KeyY)) # {}
    /\ FlagsAt("capture", Qualified(ExtB, KeyY)) # {}
    /\ FlagsAt("capture", Qualified(DEVICE, KeyX)) # {}
    /\ FlagsAt("capture", Qualified(ExtA, KeyX)) # {}

(***************************************************************************)
(* The capture session.                                                    *)
(***************************************************************************)
\* a capture has been made and its rate computed
RateComputed == Count(calls, "capture") > 0 /\ exc.type # "ZeroDivisionError"

\* C11: after each capture whose rate computation completed, the rate is
\* 3600 / elapsed seconds * shot_count, where shot_count already counts the
\* devices of that capture; 10 shots of 2 devices after 5 seconds give 7200.
C11_RateAfterCapture ==
    RateComputed =>
        /\ pages_per_hour.den = elapsed
        /\ pages_per_hour.num = 3600 * shot_count
        /\ pages_per_hour.num
              = 3600 * Len(devices) * Count(calls, "capture")
        /\ (shot_count = 10 /\ Len(devices) = 2 /\ elapsed = 5) =>
               pages_per_hour.num = 7200 * pages_per_hour.den

C11_Witness ==
    /\ RateComputed
    /\ pc = "capturing"
    /\ shot_count = 10
    /\ Len(devices) = 2
    /\ elapsed = 5
    /\ pages_per_hour = [num |-> 36000, den |-> 5]

\* the calls the capture handler made on the workflow
IsSessionCall(c) == c \in {"prepare_capture", "capture", "finish_capture"}
SessionCalls == SelectSeq(calls, IsSessionCall)
AllCaptures(log) == \A i \in 1..Len(log) : log[i] = "capture"

\* C12 (as claimed): in every armed run the calls on the workflow are
\* prepare_capture once, then one capture for each keypress whose lower-cased
\* value is a capture key, then finish_capture; nothing is called before
\* arming, every run that has left the loop ended with finish_capture, and a
\* keypress that is no capture key triggers no capture.
C12_CallSequence ==
    /\ [](/\ Count(calls, "prepare_capture") = 0 => SessionCalls = <<>>
          /\ pc \in {"capturing", "stopped"} =>
                 /\ Head(SessionCalls) = "prepare_capture"
                 /\ AllCaptures(Tail(SessionCalls))
          /\ LeftCapturing =>
                 /\ Len(SessionCalls) >= 2
                 /\ Head(SessionCalls) = "prepare_capture"
                 /\ SessionCalls[Len(SessionCalls)] = "finish_capture"
                 /\ AllCaptures(SubSeq(SessionCalls, 2,
                                       Len(SessionCalls) - 1)))
    /\ [][pc = "capturing" =>
              calls' = IF Breaks(key') THEN calls
                       ELSE Append(calls, "capture")]_vars

\* C13: in every state shot_count is the number of devices times the
\* number of captures triggered so far: it starts at 0, a capture keypress
\* adds the device count, the terminating keypress leaves it unchanged; an
\* armed session has two devices, so the count it reports is twice the
\* number of capture keypresses.
C13_ShotCount ==
    /\ [](/\ shot_count = Len(devices) * Count(calls, "capture")
          /\ Count(calls, "prepare_capture") = 0 => shot_count = 0
          /\ Count(calls, "prepare_capture") > 0 =>
                 shot_count = 2 * Count(calls, "capture"))
    /\ [][pc = "capturing" =>
              shot_count' = IF Breaks(key') THEN shot_count
                            ELSE shot_count + Len(devices)]_vars

C13_Witness ==
    /\ pc = "done"
    /\ Count(calls, "finish_capture") = 1
    /\ Breaks(key)
    /\ Count(calls, "capture") = 3
    /\ shot_count = 6

(***************************************************************************)
(* The wizard.                                                             *)
(***************************************************************************)
\* the position of the first call of that name, 0 when there is none
FirstCall(name) ==
    IF Count(calls, name) = 0 THEN 0
    ELSE CHOOSE i \in 1..Len(calls) :
             /\ calls[i] = name
             /\ \A j \in 1..(i - 1) : calls[j] # name

\* C14: the wizard runs capture, then postprocess, then output, each at most
\* once: postprocess starts only after capture has finished, output only
\* after postprocess; when capture raises, neither is started; a wizard that
\* ends normally has run all three; and calls already made are never taken
\* back.
C14_WizardStages ==
    /\ [](handler = "wizard" =>
            /\ Count(calls, "prepare_capture") <= 1
            /\ Count(calls, "finish_capture") <= 1
            /\ Count(calls, "process") <= 1
            /\ Count(calls, "output") <= 1
            /\ Count(calls, "process") = 1 =>
                   /\ Count(calls, "finish_capture") = 1
                   /\ FirstCall("finish_capture") < FirstCall("process")
            /\ Count(calls, "output") = 1 =>
                   /\ Count(calls, "process") = 1
                   /\ FirstCall("process") < FirstCall("output")
            /\ pc = "raised" =>
                   Count(calls, "process") = 0 /\ Count(calls, "output") = 0
            /\ pc \in {"deinit", "done"} => Count(calls, "output") = 1)
    /\ [][Len(calls') >= Len(calls)
           /\ SubSeq(calls', 1, Len(calls)) = calls]_vars

C14_Witness ==
    /\ handler = "wizard"
    /\ pc = "done"
    /\ Len(calls) >= 5
    /\ calls[1] = "prepare_capture"
    /\ SubSeq(calls, Len(calls) - 2, Len(calls))
          = <<"finish_capture", "process", "output">>

\* the wizard whose capture stage failed
C14_FailedCapture ==
    /\ handler = "wizard"
    /\ pc = "raised"
    /\ exc.type = "DeviceException"
    /\ calls = <<>>

(***************************************************************************)
(* The passes that fill a parser.                                          *)
(***************************************************************************)
\* the hook sets of the passes over parser p (lines 208-234)
Passes(p) ==
    CASE p = "capture" -> {CaptureHooks}
      [] p = "postprocess" -> {ProcessHooks}
      [] p = "output" -> {OutputHooks}
      [] p = "wizard" -> {CaptureHooks, ProcessHooks, OutputHooks}

HooksOf(o) ==
    extensions[CHOOSE i \in 1..Len(extensions) : extensions[i].name = o].hooks

\* the passes over parser p that offer the options of extension o
RelevantPasses(p, o) == {h \in Passes(p) : HooksOf(o) \cap h # {}}

\* how often _add_argument_from_option was called for the option on p
Attempts(p, o, k) ==
    Cardinality({i \in 1..Len(parsers[p].attempts) :
                    /\ parsers[p].attempts[i].owner = o
                    /\ parsers[p].attempts[i].key = k})

\* the flag name line 135 or line 152 gives the option
OptionFlagName(e) ==
    IF IsBool(e.option.value) THEN BoolFlagName(e.key, e.option.value)
    ELSE Enabling(e.key)

\* C15 (as claimed): on every subcommand parser every option of a relevant
\* extension, and on the capture and wizard parsers every option of the
\* driver, has exactly one flag.
C15_ExactlyOnce ==
    ParsersBuilt =>
        \A p \in Subcommands : \A o \in OwnersOf(p) :
            \A i \in 1..Len(TemplateOf(o)) :
                Cardinality(FlagsAt(p, Qualified(o, TemplateOf(o)[i].key))) = 1

\* C15: on every subcommand parser an option of a relevant extension is
\* offered once in every pass the extension's hooks intersect, an option of
\* the driver at most once on the capture and wizard parsers; however many
\* passes offer it, an option never has two flags on a parser, and it has
\* exactly one when it was offered, its keyword arguments can be built and
\* its flag name is not held by a flag of another option.
C15_OncePerParser ==
    ParsersBuilt =>
        \A p \in Subcommands : \A o \in OwnersOf(p) :
            \A i \in 1..Len(TemplateOf(o)) :
                LET e == TemplateOf(o)[i]
                    dest == Qualified(o, e.key)
                    at == FlagsAt(p, dest)
                IN  /\ Cardinality(at) <= 1
                    /\ o # DEVICE =>
                           /\ RelevantPasses(p, o) # {}
                           /\ Attempts(p, o, e.key)
                                 = Cardinality(RelevantPasses(p, o))
                    /\ o = DEVICE => Attempts(p, o, e.key) <= 1
                    /\ (/\ Attempts(p, o, e.key) > 0
                        /\ ~Unsupported(o, e)
                        /\ ~NameTaken(p, OptionFlagName(e), dest))
                       => Cardinality(at) = 1

\* an extension offered in two passes over the wizard parser has one flag
\* there, and the driver's option has one on each of capture and wizard
C15_Witness ==
    /\ ParsersBuilt
    /\ Len(extensions) > 0
    /\ extensions[1].name = ExtA
    /\ Len(extensions[1].tmpl) > 0
    /\ Cardinality(RelevantPasses("wizard", ExtA)) = 2
    /\ Attempts("wizard", ExtA, extensions[1].tmpl[1].key) = 2
    /\ Cardinality(FlagsAt("wizard",
                           Qualified(ExtA, extensions[1].tmpl[1].key))) = 1
    /\ Len(driver) > 0
    /\ Cardinality(FlagsAt("wizard", Qualified(DEVICE, driver[1].key))) = 1
    /\ Cardinality(FlagsAt("capture", Qualified(DEVICE, driver[1].key))) = 1

(***************************************************************************)
(* The dispatch key.                                                       *)
(***************************************************************************)
\* the key of the parse result that names the handler (lines 202, 206, 295)
DispatchKey == <<"subcommand">>
Dispatched == handler # ""

\* C16 (as claimed): the merge leaves the configuration's value for the
\* dispatch key as it was, and the handler called is the subcommand named
\* on the command line.
C16_DispatchKeyNotWritten ==
    Merged =>
        /\ ConfigGet(config, <<DispatchKey>>)
              = ConfigGet(BeforeMerge, <<DispatchKey>>)
        /\ Dispatched => handler = args[DispatchKey].v

\* C16: the merge writes the dispatch key into the configuration like any
\* other supplied key (the key it passes over, func, is in no parse result);
\* after the merge the configuration holds the subcommand named on the
\* command line, the lookup of the handler never fails, and the handler
\* called is that subcommand.
C16_DispatchKeyMerged ==
    /\ <<"func">> \notin DOMAIN args
    /\ Merged =>
           /\ <<DispatchKey>> \in DOMAIN config.overrides
           /\ ConfigGet(config, <<DispatchKey>>) = args[DispatchKey]
           /\ exc.type # "KeyError"
           /\ Dispatched => handler = args[DispatchKey].v

C16_Witness ==
    /\ Merged
    /\ ConfigGet(BeforeMerge, <<DispatchKey>>) = PyMissing
    /\ ConfigGet(config, <<DispatchKey>>) = PyStr("capture")
    /\ handler = "capture"

(***************************************************************************)
(* The persisted file.                                                     *)
(***************************************************************************)
FileWritten == file' # file \/ file_exists' # file_exists

\* C17: the file changes only in the dump step of a run that found no file
\* at startup, and then once (the file exists from then on); a file that
\* existed at startup is there, unchanged, in every step of the run,
\* whatever the command line supplies.
C17_FileWrittenOnce ==
    /\ [](existed => file_exists)
    /\ [][FileWritten =>
              /\ ~existed
              /\ ~file_exists
              /\ pc = "dump"
              /\ file_exists']_vars

C17_Witness ==
    /\ existed
    /\ pc = "done"
    /\ DestName(DEVICE, KeyOrientation) \in supplied
    /\ ConfigGet(config, <<DEVICE, KeyOrientation>>) = PyStr("landscape")
    /\ file \in FileContents
    /\ file[<<DEVICE, KeyOrientation>>] = PyStr("portrait")

(***************************************************************************)
(* The end of the capture session.                                         *)
(***************************************************************************)
\* C18 (as claimed): a keypress that is a capture key leaves the session in
\* the capture loop, whatever the clock reads (there is no other exit), and
\* if a key that is no capture key is pressed at some time, every session
\* in the loop comes to have called finish_capture.
C18_StaysThenFinishes ==
    /\ [][(pc = "capturing" /\ ~Breaks(key')) => pc' = "capturing"]_vars
    /\ (pc = "capturing") ~> (Count(calls, "finish_capture") = 1)

====
